---- MODULE Spec2Model ----
(***************************************************************************)
(* A model of the three Markdown escaping scripts of the repository:       *)
(*   src/fix_liquid.py         block-level wrapping, batch driver          *)
(*   src/clean_fix.py          strip markers, then block-level wrapping    *)
(*   src/fix_jekyll_syntax.py  regex substitution over the whole text      *)
(*                                                                         *)
(* A text is a sequence of tokens.  Each token stands for a fixed piece of *)
(* text, chosen so that the scripts' substring and regex tests on the real *)
(* text are exactly tests on the token sequence:                           *)
(*   "{% " "raw %}"          together the text {% raw %}                   *)
(*   "{% " "end" "raw %}"    together the text {% endraw %}                *)
(*   "BT3"  three backticks, "${" the trigger, " " white space,            *)
(*   "\n" the line break, "}" a closing brace, "a" any other character.    *)
(***************************************************************************)
EXTENDS Naturals, Sequences, FiniteSets

VARIABLES
    content,      \* the text stored in the file the script is run on
    before,       \* the text it held when the last run started
    script,       \* which script is run on the file
    runs,         \* how many runs have been made
    ret,          \* how the last run ended: "none" before any run, "True" or
                  \* "False" as returned, "written" for a script that returns
                  \* nothing, "raised" for an uncaught exception
    fs,           \* batch: entry of the tree -> text stored there
    fs0,          \* batch: the texts when the driver started
    access,       \* batch: entry of the tree -> "ok", "unreadable", "readonly"
    queue,        \* batch: entries still to visit, in order
    calls,        \* batch: entry -> how often the escaper was applied to it
    fixed_count,  \* batch: main's counter
    status        \* batch: "idle", "walking", "fixing", "done", "aborted"

vars ==
    <<content, before, script, runs, ret,
      fs, fs0, access, queue, calls, fixed_count, status>>

fileVars == <<content, before, script, runs, ret>>
batchVars == <<fs, fs0, access, queue, calls, fixed_count, status>>

\* ------------------------------------------------------------------ bounds

MaxLines == 5
MaxCleanLines == 4
MaxRuns == 2

\* ------------------------------------------------------------------ tokens

NL == "\n"
SP == " "
FENCE == <<"BT3">>
TRIGGER == <<"${">>
RAW == <<"{% ", "raw %}">>
ENDRAW == <<"{% ", "end", "raw %}">>

\* ------------------------------------------------------- string primitives

\* s.startswith(p)
startswith(s, p) ==
    /\ Len(s) >= Len(p)
    /\ SubSeq(s, 1, Len(p)) = p

\* p in s
Contains(s, p) ==
    \E i \in 1..(Len(s) - Len(p) + 1) : SubSeq(s, i, i + Len(p) - 1) = p

RECURSIVE lstrip(_)
lstrip(s) ==
    IF s # <<>> /\ s[1] = SP THEN lstrip(Tail(s)) ELSE s

RECURSIVE rstrip(_)
rstrip(s) ==
    IF s # <<>> /\ s[Len(s)] = SP THEN rstrip(SubSeq(s, 1, Len(s) - 1)) ELSE s

\* line.strip()
strip(s) == rstrip(lstrip(s))

RECURSIVE SplitFrom(_, _, _)
SplitFrom(s, i, cur) ==
    IF i > Len(s) THEN <<cur>>
    ELSE IF s[i] = NL THEN <<cur>> \o SplitFrom(s, i + 1, <<>>)
    ELSE SplitFrom(s, i + 1, Append(cur, s[i]))

\* content.split(NL): always at least one line
split(s) == SplitFrom(s, 1, <<>>)

RECURSIVE join(_)
\* NL.join(lines)
join(ls) ==
    IF ls = <<>> THEN <<>>
    ELSE IF Len(ls) = 1 THEN ls[1]
    ELSE ls[1] \o <<NL>> \o join(Tail(ls))

\* ------------------------------------------------- the block-level scan

ScanInit ==
    [result_lines |-> <<>>, in_code_block |-> FALSE, code_block_lines |-> <<>>]

\* ScanStep with the closing marker forgotten.
ScanStep_NoEndraw(st, line) ==
    IF startswith(strip(line), FENCE)
    THEN IF st.in_code_block
         THEN [result_lines |->
                   st.result_lines
                   \o (IF Contains(join(st.code_block_lines), TRIGGER)
                       THEN <<RAW>> \o st.code_block_lines
                       ELSE st.code_block_lines)
                   \o <<line>>,
               in_code_block |-> FALSE,
               code_block_lines |-> <<>>]
         ELSE [st EXCEPT !.result_lines = Append(@, line),
                         !.in_code_block = TRUE]
    ELSE IF st.in_code_block
         THEN [st EXCEPT !.code_block_lines = Append(@, line)]
         ELSE [st EXCEPT !.result_lines = Append(@, line)]

\* ScanStep wrapping a line with a template literal outside a fence as well.
ScanStep_WrapProse(st, line) ==
    IF startswith(strip(line), FENCE)
    THEN IF st.in_code_block
         THEN [result_lines |->
                   st.result_lines
                   \o (IF Contains(join(st.code_block_lines), TRIGGER)
                       THEN <<RAW>> \o st.code_block_lines \o <<ENDRAW>>
                       ELSE st.code_block_lines)
                   \o <<line>>,
               in_code_block |-> FALSE,
               code_block_lines |-> <<>>]
         ELSE [st EXCEPT !.result_lines = Append(@, line),
                         !.in_code_block = TRUE]
    ELSE IF st.in_code_block
         THEN [st EXCEPT !.code_block_lines = Append(@, line)]
         ELSE IF Contains(line, TRIGGER)
              THEN [st EXCEPT !.result_lines = @ \o <<RAW \o line \o ENDRAW>>]
              ELSE [st EXCEPT !.result_lines = Append(@, line)]

\* One iteration of "for line in lines".
ScanStep(st, line) ==
    IF startswith(strip(line), FENCE)
    THEN IF st.in_code_block
         THEN [result_lines |->
                   st.result_lines
                   \o (IF Contains(join(st.code_block_lines), TRIGGER)
                       THEN <<RAW>> \o st.code_block_lines \o <<ENDRAW>>
                       ELSE st.code_block_lines)
                   \o <<line>>,
               in_code_block |-> FALSE,
               code_block_lines |-> <<>>]
         ELSE [st EXCEPT !.result_lines = Append(@, line),
                         !.in_code_block = TRUE]
    ELSE IF st.in_code_block
         THEN [st EXCEPT !.code_block_lines = Append(@, line)]
         ELSE [st EXCEPT !.result_lines = Append(@, line)]

RECURSIVE ScanLoop(_, _, _)
ScanLoop(st, lines, i) ==
    IF i > Len(lines) THEN st
    ELSE ScanLoop(ScanStep(st, lines[i]), lines, i + 1)

\* The function ends with the join of result_lines: lines still held in
\* code_block_lines when the input ends are not part of the result.
fix_template_literals(text) ==
    join(ScanLoop(ScanInit, split(text), 1).result_lines)

\* process_file without its file access: the text to store and the value
\* returned.  io is what the file system does: "ok", "read_error" (open or
\* decode fails) or "write_error" (the open for writing fails).  Both errors
\* are caught by "except Exception" and the function returns False.
process_file(text, io) ==
    IF io = "read_error" THEN [content |-> text, ret |-> "False"]
    ELSE IF Contains(text, TRIGGER)
    THEN LET fixed_content == fix_template_literals(text)
         IN  IF fixed_content # text
             THEN IF io = "write_error"
                  THEN [content |-> text, ret |-> "False"]
                  ELSE [content |-> fixed_content, ret |-> "True"]
             ELSE [content |-> text, ret |-> "False"]
    ELSE [content |-> text, ret |-> "False"]

\* -------------------------------------------------- clean_fix: strip pass

RECURSIVE sub_raw(_)
\* re.sub of the raw marker and an optional line break after it, by nothing:
\* one pass, left to right, over non-overlapping matches.
sub_raw(s) ==
    IF s = <<>> THEN <<>>
    ELSE IF startswith(s, RAW)
    THEN LET rest == SubSeq(s, Len(RAW) + 1, Len(s))
         IN  IF rest # <<>> /\ rest[1] = NL
             THEN sub_raw(Tail(rest))
             ELSE sub_raw(rest)
    ELSE <<s[1]>> \o sub_raw(Tail(s))

RECURSIVE sub_endraw(_)
\* re.sub of an optional line break and the endraw marker, by nothing.
sub_endraw(s) ==
    IF s = <<>> THEN <<>>
    ELSE IF startswith(s, <<NL>> \o ENDRAW)
    THEN sub_endraw(SubSeq(s, Len(ENDRAW) + 2, Len(s)))
    ELSE IF startswith(s, ENDRAW)
    THEN sub_endraw(SubSeq(s, Len(ENDRAW) + 1, Len(s)))
    ELSE <<s[1]>> \o sub_endraw(Tail(s))

\* The two substitutions, in the order of the code.
remove_raw_tags(text) == sub_endraw(sub_raw(text))

\* clean_and_fix_file on the text read: the strip pass, then the same scan
\* (the loop of clean_fix.py is the loop of fix_liquid.py, line for line).
clean_and_fix_file(text) ==
    join(ScanLoop(ScanInit, split(remove_raw_tags(text)), 1).result_lines)

\* ------------------------------------------------------------- inputs

RECURSIVE SeqsUpTo(_, _)
\* The sequences over S of length at most n.
SeqsUpTo(S, n) ==
    IF n = 0 THEN {<<>>}
    ELSE LET shorter == SeqsUpTo(S, n - 1)
         IN  shorter \cup {Append(q, x) : q \in shorter, x \in S}

\* Lines a Markdown file of the repository is made of.
CodeLines ==
    { <<SP, "BT3", "a">>,        \* an indented fence with a language
      <<"a", "${", "a">>,        \* a line with a template literal
      <<"a">>,                   \* a line without
      <<"a", "BT3">> }           \* backticks that do not start the line

\* Lines of a file that a marker pass has been over, or that writes about one.
MarkedLines ==
    { <<"BT3">>,
      <<"a", "${", "a">>,
      <<"a">>,
      RAW,
      ENDRAW,
      <<"{% ", "{% ", "raw %}", "raw %}">> }   \* a marker split by a marker

IOOutcomes == {"ok", "read_error", "write_error"}

\* --------------------------------------------- one file, run after run

NoBatch ==
    /\ fs = <<>>
    /\ fs0 = <<>>
    /\ access = <<>>
    /\ queue = <<>>
    /\ calls = <<>>
    /\ fixed_count = 0
    /\ status = "idle"

Docs(kinds, n) == {join(ls) : ls \in SeqsUpTo(kinds, n) \ {<<>>}}

Init ==
    /\ content \in Docs(CodeLines, MaxLines) \cup Docs(MarkedLines, MaxCleanLines)
    /\ before = content
    /\ script \in {"fix_liquid", "clean_fix"}
    /\ runs = 0
    /\ ret = "none"
    /\ NoBatch

\* fix_liquid.process_file(filepath) on the file.
ProcessFile ==
    /\ script = "fix_liquid"
    /\ runs < MaxRuns
    /\ \E io \in IOOutcomes :
         LET r == process_file(content, io)
         IN  /\ content' = r.content
             /\ ret' = r.ret
    /\ before' = content
    /\ runs' = runs + 1
    /\ UNCHANGED <<script, batchVars>>

\* python clean_fix.py: the module's statements, run once more.  Nothing
\* catches a failing open, and the write is unconditional.
CleanFixRun ==
    /\ script = "clean_fix"
    /\ runs < MaxRuns
    /\ \E io \in IOOutcomes :
         IF io = "ok"
         THEN /\ content' = clean_and_fix_file(content)
              /\ ret' = "written"
         ELSE /\ content' = content
              /\ ret' = "raised"
    /\ before' = content
    /\ runs' = runs + 1
    /\ UNCHANGED <<script, batchVars>>

Next ==
    \/ ProcessFile
    \/ CleanFixRun

Spec == Init /\ [][Next]_vars

\* ------------------------------------------- vocabulary of the properties

\* A fence delimiter, said without strip and startswith: three backticks
\* with nothing but white space before them.
IsFenceLine(line) ==
    \E k \in 1..Len(line) :
        /\ line[k] = "BT3"
        /\ \A j \in 1..(k - 1) : line[j] = SP

HasTrigger(line) == \E k \in 1..Len(line) : line[k] = "${"

IsMarkerLine(line) == line = RAW \/ line = ENDRAW

\* How many delimiters there are among the first i lines.
FenceRank(L, i) == Cardinality({j \in 1..i : IsFenceLine(L[j])})

Odd(n) == n % 2 = 1

\* The closed blocks of L, each as <<opening delimiter, closing delimiter>>.
ClosedBlocks(L) ==
    {b \in (1..Len(L)) \X (1..Len(L)) :
        /\ b[1] < b[2]
        /\ IsFenceLine(L[b[1]])
        /\ IsFenceLine(L[b[2]])
        /\ Odd(FenceRank(L, b[1]))
        /\ FenceRank(L, b[2]) = FenceRank(L, b[1]) + 1}

BlockHasTrigger(L, b) == \E i \in (b[1] + 1)..(b[2] - 1) : HasTrigger(L[i])

\* The lines outside every block, closed or not, delimiters left out.
RECURSIVE OutsideFrom(_, _)
OutsideFrom(L, i) ==
    IF i > Len(L) THEN <<>>
    ELSE IF ~IsFenceLine(L[i]) /\ ~Odd(FenceRank(L, i))
    THEN <<L[i]>> \o OutsideFrom(L, i + 1)
    ELSE OutsideFrom(L, i + 1)

OutsideLines(L) == OutsideFrom(L, 1)

RECURSIVE NonMarkerFrom(_, _)
NonMarkerFrom(L, i) ==
    IF i > Len(L) THEN <<>>
    ELSE IF IsMarkerLine(L[i]) THEN NonMarkerFrom(L, i + 1)
    ELSE <<L[i]>> \o NonMarkerFrom(L, i + 1)

NonMarkerLines(L) == NonMarkerFrom(L, 1)

\* The last run did scan a text and store the result.
Applied ==
    \/ script = "fix_liquid" /\ ret = "True"
    \/ script = "clean_fix" /\ ret = "written"

\* The text the scan of the last run was given.
ScanInput == IF script = "clean_fix" THEN remove_raw_tags(before) ELSE before

\* In O, every closed block of L is where the wrapped blocks before it put
\* it: its delimiters as they were, its lines between them, and one raw line
\* and one endraw line around the lines exactly if one of them has "${".
SelectivelyWrapped(L, O) ==
    \A b \in ClosedBlocks(L) :
        LET n == b[2] - b[1]
            p == b[1] + 2 * Cardinality({e \in ClosedBlocks(L) :
                                            e[2] < b[1] /\ BlockHasTrigger(L, e)})
        IN  IF BlockHasTrigger(L, b)
            THEN /\ Len(O) >= p + n + 2
                 /\ O[p] = L[b[1]]
                 /\ O[p + 1] = RAW
                 /\ \A i \in 1..(n - 1) : O[p + 1 + i] = L[b[1] + i]
                 /\ O[p + n + 1] = ENDRAW
                 /\ O[p + n + 2] = L[b[2]]
            ELSE /\ Len(O) >= p + n
                 /\ \A i \in 0..n : O[p + i] = L[b[1] + i]

\* ---------------------------------------------------------- properties

\* C4: selective wrapping.  The scan emits every closed block between its
\* own two delimiters, with exactly one raw line right after the opening
\* delimiter and one endraw line right before the closing one if a line of
\* the block has "${", and with no marker line added if none has; of the
\* text a run scanned and stored, and of the function on any text.
C4_SelectiveWrapping ==
    /\ Applied => SelectivelyWrapped(split(ScanInput), split(content))
    /\ SelectivelyWrapped(split(content), split(fix_template_literals(content)))

\* A run of fix_liquid has stored a text with a block it wrapped and a block
\* it left alone.
C4_Witness ==
    /\ script = "fix_liquid"
    /\ ret = "True"
    /\ \E b \in ClosedBlocks(split(before)) : BlockHasTrigger(split(before), b)
    /\ \E b \in ClosedBlocks(split(before)) : ~BlockHasTrigger(split(before), b)

\* C5 as amended: locality.  Every line outside any fenced block of the text
\* the scan is given comes out unchanged and in the same order, a line with
\* "${" or marker text included; for clean_fix that text is what its strip
\* pass leaves of the file.
C5_OutsideLinesKept ==
    /\ Applied =>
         OutsideLines(split(content)) = OutsideLines(split(ScanInput))
    /\ OutsideLines(split(fix_template_literals(content)))
         = OutsideLines(split(content))

\* A run of clean_fix wrapped a block of a file that has a line with "${"
\* outside every block.
C5_Witness ==
    /\ script = "clean_fix"
    /\ ret = "written"
    /\ content # before
    /\ \E i \in 1..Len(OutsideLines(split(before))) :
           HasTrigger(OutsideLines(split(before))[i])
    /\ \E b \in ClosedBlocks(split(before)) : BlockHasTrigger(split(before), b)

\* C5 as claimed: the lines outside any fenced block of the file itself,
\* marker text included, are the lines outside any fenced block of the
\* result, the strip pass of clean_fix included.
C5_Locality ==
    Applied => OutsideLines(split(content)) = OutsideLines(split(before))

\* The index of the last delimiter of L (0 if there is none).
LastFence(L) ==
    IF \E i \in 1..Len(L) : IsFenceLine(L[i])
    THEN CHOOSE i \in 1..Len(L) :
             /\ IsFenceLine(L[i])
             /\ \A j \in (i + 1)..Len(L) : ~IsFenceLine(L[j])
    ELSE 0

IsSuffix(t, O) ==
    /\ Len(O) >= Len(t)
    /\ SubSeq(O, Len(O) - Len(t) + 1, Len(O)) = t

\* C1: unterminated-fence safety.  When the text scanned ends inside a fence
\* (an odd number of delimiters), the result ends with the lines of the text
\* from the last opening delimiter on, unchanged and unwrapped.
C1_UnterminatedFenceSafe ==
    Applied =>
        LET L == split(ScanInput)
        IN  Odd(FenceRank(L, Len(L))) =>
                IsSuffix(SubSeq(L, LastFence(L), Len(L)), split(content))

\* C2: idempotence.  The text a run of clean_fix has stored is what another
\* run of clean_fix makes of it.
C2_Idempotent ==
    (script = "clean_fix" /\ ret = "written") =>
        clean_and_fix_file(content) = content

\* C3: content preservation.  Marker lines aside, the lines of the result
\* are the lines of the text scanned, in their order.
C3_ContentPreserved ==
    Applied =>
        NonMarkerLines(split(content)) = NonMarkerLines(split(ScanInput))

RECURSIVE MarkerDepths(_, _, _)
\* The nesting depth after each marker line of L, from line i at depth d.
MarkerDepths(L, i, d) ==
    IF i > Len(L) THEN <<>>
    ELSE IF L[i] = RAW THEN <<d + 1>> \o MarkerDepths(L, i + 1, d + 1)
    ELSE IF L[i] = ENDRAW /\ d > 0
    THEN <<d - 1>> \o MarkerDepths(L, i + 1, d - 1)
    ELSE IF L[i] = ENDRAW THEN <<2>> \o MarkerDepths(L, i + 1, d)
    ELSE MarkerDepths(L, i + 1, d)

CountLines(L, line) == Cardinality({i \in 1..Len(L) : L[i] = line})

\* As many raw lines as endraw lines, and no raw line between a raw line and
\* its endraw line.
Balanced(text) ==
    LET L == split(text)
        ds == MarkerDepths(L, 1, 0)
    IN  /\ CountLines(L, RAW) = CountLines(L, ENDRAW)
        /\ \A k \in 1..Len(ds) : ds[k] <= 1

\* Marker text stands only on marker lines.
MarkersOnOwnLines(text) ==
    \A i \in 1..Len(split(text)) :
        (Contains(split(text)[i], RAW) \/ Contains(split(text)[i], ENDRAW))
            => IsMarkerLine(split(text)[i])

\* A text as a run leaves it: every fence closed, and marker text only as
\* the raw line that opens a closed block and the endraw line that ends it.
ProperlyWrapped(text) ==
    LET L == split(text)
    IN  /\ ~Odd(FenceRank(L, Len(L)))
        /\ MarkersOnOwnLines(text)
        /\ \A i \in 1..Len(L) :
               IsMarkerLine(L[i]) =>
                   \E b \in ClosedBlocks(L) :
                       /\ b[1] + 1 < b[2] - 1
                       /\ L[b[1] + 1] = RAW
                       /\ L[b[2] - 1] = ENDRAW
                       /\ i \in {b[1] + 1, b[2] - 1}

\* C6: marker balance and no nesting.  A run over a file whose blocks are
\* each wrapped at most once, such as a file an earlier run fixed, stores a
\* file with as many raw lines as endraw lines and no raw line between a
\* raw line and its endraw line.
C6_BalancedNotNested ==
    (runs > 0 /\ ProperlyWrapped(before)) => Balanced(content)

\* C10: write only on change.  process_file returns True only when a closed
\* block with "${" got its marker pair, and leaves the file as it was when
\* it returns False.
C10_WriteOnlyOnChange ==
    (script = "fix_liquid" /\ runs > 0) =>
        /\ ret = "True" =>
             \E b \in ClosedBlocks(split(before)) :
                 BlockHasTrigger(split(before), b)
        /\ ret = "False" => content = before

\* ------------------------------ fix_jekyll_syntax: the regex substitution

\* The text the replacement callback spells for a match: the format string
\* of line 31, its doubled braces halved and its quoted brace kept as text,
\* around the group.  (As the line stands CPython refuses it, a backslash
\* inside a replacement field, so the script stops with a SyntaxError before
\* it runs: see JekyllSyntaxError.  This is what the line is written to do.)
replace_template_literal(inner_content) ==
    <<"${", "{", SP, "'", "{", "'", SP, "}", "}", "{", "{">>
    \o inner_content \o <<"}", "}">>

RECURSIVE FirstBrace(_, _)
\* The index of the first "}" of s at or after i, 0 if there is none.
FirstBrace(s, i) ==
    IF i > Len(s) THEN 0
    ELSE IF s[i] = "}" THEN i
    ELSE FirstBrace(s, i + 1)

RECURSIVE sub_template_literals(_)
\* re.sub(pattern, replace_template_literal, content), the pattern being
\* "${", one or more characters that are not "}" (line breaks included), "}":
\* one pass, left to right, wherever in the text a match starts.
sub_template_literals(s) ==
    IF s = <<>> THEN <<>>
    ELSE IF s[1] = "${" /\ FirstBrace(s, 2) > 2
    THEN replace_template_literal(SubSeq(s, 2, FirstBrace(s, 2) - 1))
         \o sub_template_literals(SubSeq(s, FirstBrace(s, 2) + 1, Len(s)))
    ELSE <<s[1]>> \o sub_template_literals(Tail(s))

\* fix_liquid_syntax_in_file without its file access.  Nothing catches a
\* failing open: the exception leaves the function.
fix_liquid_syntax_in_file(text, io) ==
    IF io = "read_error" THEN [content |-> text, ret |-> "raised"]
    ELSE IF sub_template_literals(text) # text
    THEN IF io = "write_error"
         THEN [content |-> text, ret |-> "raised"]
         ELSE [content |-> sub_template_literals(text), ret |-> "True"]
    ELSE [content |-> text, ret |-> "False"]

MaxJekyllLen == 4

JekyllTokens == {"${", "}", "a", NL, "BT3"}

InitJekyll ==
    /\ content \in SeqsUpTo(JekyllTokens, MaxJekyllLen)
    /\ before = content
    /\ script = "fix_jekyll_syntax"
    /\ runs = 0
    /\ ret = "none"
    /\ NoBatch

\* fix_liquid_syntax_in_file(file_path) on the file.
JekyllFixFile ==
    /\ script = "fix_jekyll_syntax"
    /\ ret # "SyntaxError"
    /\ runs < MaxRuns
    /\ \E io \in IOOutcomes :
         LET r == fix_liquid_syntax_in_file(content, io)
         IN  /\ content' = r.content
             /\ ret' = r.ret
    /\ before' = content
    /\ runs' = runs + 1
    /\ UNCHANGED <<script, batchVars>>

\* python fix_jekyll_syntax.py under CPython: line 31 does not compile, and
\* no statement of the script runs.
JekyllSyntaxError ==
    /\ script = "fix_jekyll_syntax"
    /\ runs = 0
    /\ ret' = "SyntaxError"
    /\ runs' = runs + 1
    /\ UNCHANGED <<content, before, script, batchVars>>

NextJekyll ==
    \/ JekyllFixFile
    \/ JekyllSyntaxError

SpecJekyll == InitJekyll /\ [][NextJekyll]_vars

\* C8: scope of the line-level policy.  A run of the line-level escaper
\* leaves every line outside a fenced block as it was, and every line inside
\* one that has no "${"; it rewrites only inside fenced blocks.
C8_OnlyInsideFences ==
    ret = "True" =>
        /\ Len(split(content)) = Len(split(before))
        /\ \A i \in 1..Len(split(before)) :
               (\/ ~Odd(FenceRank(split(before), i))
                \/ ~HasTrigger(split(before)[i]))
                   => split(content)[i] = split(before)[i]

\* ------------------------------------------------- the batch drivers

\* The tree the drivers walk, as os.walk lists it top down: the directory
\* (root) and one file of it per entry.  "." stands for the root handed to
\* os.walk ('.' in fix_liquid.py, repo_root in fix_jekyll_syntax.py, a path
\* without the text .git); ".git" "hub" together are the name .github.
Tree ==
    << [root |-> <<".">>,                    name |-> <<"README", ".md">>],
       [root |-> <<".">>,                    name |-> <<"LICENSE">>],
       [root |-> <<".", "/", ".git">>,       name |-> <<"description", ".md">>],
       [root |-> <<".", "/", ".git", "hub">>, name |-> <<"CONTRIBUTING", ".md">>],
       [root |-> <<".", "/", "docs">>,       name |-> <<"guide", ".md">>] >>

Entries == 1..Len(Tree)

\* file.endswith('.md')
endswith_md(name) == name # <<>> /\ name[Len(name)] = ".md"

\* '.git' in root
git_in_root(root) == Contains(root, <<".git">>)

\* The entries main hands to the escaper.
Visited(e) == ~git_in_root(Tree[e].root) /\ endswith_md(Tree[e].name)

\* What the file system answers for a file of the given access.
IoOf(a) ==
    IF a = "unreadable" THEN "read_error"
    ELSE IF a = "readonly" THEN "write_error"
    ELSE "ok"

\* A text with a template literal in a closed block, and one with none.
SampleTexts ==
    { join(<<FENCE, <<"${", "a", "}">>, FENCE>>), <<"a">> }

InitBatch ==
    /\ fs \in [Entries -> SampleTexts]
    /\ fs[2] = <<"a">>
    /\ fs0 = fs
    /\ access \in [Entries -> {"ok", "unreadable", "readonly"}]
    /\ access[2] = "ok"
    /\ script \in {"fix_liquid", "fix_jekyll_syntax"}
    /\ queue = [e \in Entries |-> e]
    /\ calls = [e \in Entries |-> 0]
    /\ fixed_count = 0
    /\ status = "walking"
    /\ content = <<>>
    /\ before = <<>>
    /\ runs = 0
    /\ ret = "none"

\* fix_liquid.main: one file of the walk.
LiquidVisit ==
    /\ script = "fix_liquid"
    /\ status = "walking"
    /\ queue # <<>>
    /\ LET e == Head(queue)
           r == process_file(fs[e], IoOf(access[e]))
       IN  IF Visited(e)
           THEN /\ fs' = [fs EXCEPT ![e] = r.content]
                /\ calls' = [calls EXCEPT ![e] = @ + 1]
                /\ fixed_count' =
                       IF r.ret = "True" THEN fixed_count + 1 ELSE fixed_count
           ELSE UNCHANGED <<fs, calls, fixed_count>>
    /\ queue' = Tail(queue)
    /\ UNCHANGED <<fs0, access, status, fileVars>>

\* fix_liquid.main: the walk is over, the count is printed.
LiquidDone ==
    /\ script = "fix_liquid"
    /\ status = "walking"
    /\ queue = <<>>
    /\ status' = "done"
    /\ UNCHANGED <<fs, fs0, access, queue, calls, fixed_count, fileVars>>

\* fix_jekyll_syntax.main: the walk, which only collects md_files.
JekyllCollect ==
    /\ script = "fix_jekyll_syntax"
    /\ status = "walking"
    /\ queue' = SelectSeq(queue, Visited)
    /\ status' = "fixing"
    /\ UNCHANGED <<fs, fs0, access, calls, fixed_count, fileVars>>

\* fix_jekyll_syntax.main: one file of md_files.  An exception of
\* fix_liquid_syntax_in_file is caught nowhere and ends main.
JekyllFix ==
    /\ script = "fix_jekyll_syntax"
    /\ status = "fixing"
    /\ queue # <<>>
    /\ LET e == Head(queue)
           r == fix_liquid_syntax_in_file(fs[e], IoOf(access[e]))
       IN  /\ calls' = [calls EXCEPT ![e] = @ + 1]
           /\ fs' = [fs EXCEPT ![e] = r.content]
           /\ IF r.ret = "raised"
              THEN /\ status' = "aborted"
                   /\ UNCHANGED <<queue, fixed_count>>
              ELSE /\ status' = status
                   /\ queue' = Tail(queue)
                   /\ fixed_count' =
                          IF r.ret = "True" THEN fixed_count + 1
                          ELSE fixed_count
    /\ UNCHANGED <<fs0, access, fileVars>>

\* fix_jekyll_syntax.main: every file done, the count is printed.
JekyllDone ==
    /\ script = "fix_jekyll_syntax"
    /\ status = "fixing"
    /\ queue = <<>>
    /\ status' = "done"
    /\ UNCHANGED <<fs, fs0, access, queue, calls, fixed_count, fileVars>>

\* python fix_jekyll_syntax.py under CPython: the script does not compile.
JekyllBatchSyntaxError ==
    /\ script = "fix_jekyll_syntax"
    /\ status = "walking"
    /\ status' = "syntax_error"
    /\ UNCHANGED <<fs, fs0, access, queue, calls, fixed_count, fileVars>>

NextBatch ==
    \/ LiquidVisit
    \/ LiquidDone
    \/ JekyllCollect
    \/ JekyllFix
    \/ JekyllDone
    \/ JekyllBatchSyntaxError

SpecBatch == InitBatch /\ [][NextBatch]_vars

RECURSIVE PathParts(_, _, _)
\* The names a path is made of, "/" between them.
PathParts(path, i, cur) ==
    IF i > Len(path) THEN <<cur>>
    ELSE IF path[i] = "/" THEN <<cur>> \o PathParts(path, i + 1, <<>>)
    ELSE PathParts(path, i + 1, Append(cur, path[i]))

\* The directory is the one named .git, or lies below it.
InsideGitDir(root) ==
    \E k \in 1..Len(PathParts(root, 1, <<>>)) :
        PathParts(root, 1, <<>>)[k] = <<".git">>

\* C7: fail-soft batch.  A file that cannot be opened, decoded or written
\* never ends the batch: the driver goes on, and at its end every file it
\* was to visit has been handed to the escaper once, the files that failed
\* are as they were, and the count is the number of files changed.
C7_FailSoft ==
    /\ status # "aborted"
    /\ status = "done" =>
         /\ \A e \in Entries : Visited(e) => calls[e] = 1
         /\ \A e \in Entries : access[e] # "ok" => fs[e] = fs0[e]
         /\ fixed_count = Cardinality({e \in Entries : fs[e] # fs0[e]})

\* C9: batch discovery.  When the driver is done it has applied the escaper
\* exactly once to every file whose name ends in .md and that is not inside
\* the directory named .git, one under .github included, and to no other.
C9_Discovery ==
    status = "done" =>
        \A e \in Entries :
            calls[e] =
                IF endswith_md(Tree[e].name) /\ ~InsideGitDir(Tree[e].root)
                THEN 1 ELSE 0

====
